---- MODULE Spec2Model ----
(***************************************************************************)
(* A model of GitDataCollector (src/src/data_collection/github_collector.py): *)
(* the constructor, the paginated walk, the assembly of one pull-request    *)
(* row, the credential check, the two destinations, and the runs of        *)
(* create_csv (batch), main (streaming) and create_and_store_pr_data_all.  *)
(*                                                                         *)
(* The HTTP server is the environment: every request is answered by a      *)
(* reply chosen from a bounded set.  Text that the code parses character   *)
(* by character (the Link header) is a sequence of one-character strings.  *)
(***************************************************************************)
EXTENDS Integers, Sequences, FiniteSets, TLC

VARIABLES
    max_pages,   \* self.max_pages of the collector under test
    per_page_arg, \* the per_page argument the constructor was given
    per_page,    \* self.per_page
    db_type,     \* self.db_config["database_type"], "none" without db_config
    url,         \* get_all_paginated_items: local url (a Python str or None)
    page_count,  \* get_all_paginated_items: local page_count
    items,       \* get_all_paginated_items: local items
    wstate,      \* position of the walk: "idle", "loop", "returned", "raised"
    requested,   \* history: the urls of the page requests of the current walk
    fetched,     \* history: what the server answered to each of them
    earlier,     \* history: the pages fetched by the earlier walks of the collector
    asm_in,      \* build_pr_data_row on its own: the PR and the replies it gets
    asm_out,     \* build_pr_data_row on its own: what it returned
    entry,       \* the entry point that runs, or "none"
    repo,        \* self.repo: the configured repository name, "" for None
    pc,          \* position of the run
    token,       \* history: the reply to the identity request and the result
    repos,       \* the repositories returned by get_repos
    repo_idx,    \* loop position in repos
    prs,         \* the pull requests being iterated
    pr_idx,      \* loop position in prs
    page,        \* fetch_and_process_prs: local page
    rows,        \* create_dataframe_with_prs: local rows
    table,       \* the rows of the relational table pull_requests
    docs,        \* the documents of the collection pr_bodies
    csv,         \* the files written by to_csv, in order
    reqs,        \* history: the kinds of request issued so far
    scanned,     \* history: the (owner, name) pairs whose PR listing was requested
    assembled,   \* history: one entry per call of build_pr_data_row
    writes       \* history: one entry per record handed to a destination

cfgvars == <<max_pages, per_page_arg, per_page, db_type, entry, repo>>
walkvars == <<url, page_count, items, wstate, requested, fetched, earlier>>
asmvars == <<asm_in, asm_out>>
runvars == <<pc, token, repos, repo_idx, prs, pr_idx, page, rows, table, docs,
             csv, reqs, scanned, assembled, writes>>

vars == <<max_pages, per_page_arg, per_page, db_type, url, page_count, items,
          wstate, requested, fetched, earlier, asm_in, asm_out, entry, repo, pc,
          token, repos, repo_idx, prs, pr_idx, page, rows, table, docs, csv, reqs,
          scanned, assembled, writes>>

----------------------------------------------------------------------------
(* Bounds of the model.                                                    *)

\* the walk is explored up to this many page requests
MaxRequests == 3
\* a page carries at most this many items
MaxPageLen == 1
\* the caller passes max_pages in 0..MaxPagesArg (0 stands for "not given")
MaxPagesArg == 2

\* the items a listing can carry are identified by these ids
ItemIds == {1, 2}

----------------------------------------------------------------------------
(* Python values.                                                          *)

\* an optional str: None, or a str given as its sequence of characters
PyNone == [none |-> TRUE, s |-> <<>>]
PyStr(s) == [none |-> FALSE, s |-> s]
\* truth value of an optional str: None and "" are falsy
Truthy(v) == ~v.none /\ v.s # <<>>

\* s[a:-1] for a >= 0
SliceToLast(s, a) ==
    IF Len(s) - 1 >= a + 1 THEN SubSeq(s, a + 1, Len(s) - 1) ELSE <<>>

\* the least i with s[i..i+Len(sep)-1] = sep, or 0
FindSep(s, sep) ==
    LET hits == {i \in 1..(Len(s) - Len(sep) + 1) :
                    SubSeq(s, i, i + Len(sep) - 1) = sep}
    IN IF hits = {} THEN 0 ELSE CHOOSE i \in hits : \A j \in hits : i <= j

\* s.split(sep) for a non-empty separator
RECURSIVE Split(_, _)
Split(s, sep) ==
    LET i == FindSep(s, sep)
    IN IF i = 0 THEN <<s>>
       ELSE <<SubSeq(s, 1, i - 1)>> \o Split(SubSeq(s, i + Len(sep), Len(s)), sep)

----------------------------------------------------------------------------
(* The Link header as the server writes it.                                *)

RelNext  == <<"n", "e", "x", "t">>
RelPrev  == <<"p", "r", "e", "v">>
RelLast  == <<"l", "a", "s", "t">>
RelFirst == <<"f", "i", "r", "s", "t">>

UrlA == <<"a">>
UrlB == <<"b">>
UrlC == <<"c">>

\* one entry  <url>; rel="name"
LinkEntry(u, rel) ==
    <<"<">> \o u \o <<">", ";", " ", "r", "e", "l", "=", "\"">> \o rel \o <<"\"">>

\* a header of several entries, separated by ", "
RECURSIVE LinkText(_)
LinkText(rels) ==
    IF Len(rels) = 0 THEN <<>>
    ELSE IF Len(rels) = 1 THEN LinkEntry(rels[1][1], rels[1][2])
    ELSE LinkEntry(rels[1][1], rels[1][2]) \o <<",", " ">> \o LinkText(Tail(rels))

\* the relation lists of the well-formed headers the server sends
WellFormedRels ==
    { <<<<UrlB, RelNext>>>>,
      <<<<UrlB, RelNext>>, <<UrlC, RelLast>>>>,
      <<<<UrlA, RelPrev>>, <<UrlB, RelNext>>, <<UrlC, RelLast>>, <<UrlA, RelFirst>>>>,
      <<<<UrlC, RelLast>>, <<UrlB, RelNext>>>>,
      <<<<UrlA, RelPrev>>, <<UrlA, RelFirst>>>> }

\* the url the server labelled "next" in a relation list, or None
DeclaredNext(rels) ==
    LET hits == {i \in 1..Len(rels) : rels[i][2] = RelNext}
    IN IF hits = {} THEN PyNone ELSE PyStr(rels[CHOOSE i \in hits : TRUE][1])

\* header texts that are no comma-separated list of <url>; rel="name" entries
MalformedTexts ==
    { <<"x">>,
      <<"<", "b", ">", ";", "r", "e", "l", "=", "\"", "n", "e", "x", "t", "\"">>,
      <<"<", "b", ">", ";", " ", "n", "e", "x", "t">>,
      LinkEntry(UrlB, RelNext) \o <<",", " ">> }

\* the Link header of a reply: absent, well-formed, or malformed text
LinkHeaders ==
    { [kind |-> "absent", text |-> PyNone, next |-> PyNone] } \cup
    { [kind |-> "wf", text |-> PyStr(LinkText(r)), next |-> DeclaredNext(r)] :
        r \in WellFormedRels } \cup
    { [kind |-> "malformed", text |-> PyStr(t), next |-> PyNone] :
        t \in MalformedTexts } \cup
    { [kind |-> "malformed", text |-> PyStr(<<>>), next |-> PyNone] }

----------------------------------------------------------------------------
(* Replies of the server and the request gateway.                          *)

Statuses == {200, 204, 304, 404, 500}

\* the bodies of a listing page: JSON arrays of at most MaxPageLen items
RECURSIVE SeqsUpTo(_, _)
SeqsUpTo(S, n) ==
    IF n = 0 THEN {<<>>}
    ELSE LET shorter == SeqsUpTo(S, n - 1)
         IN shorter \cup {Append(q, x) : q \in {r \in shorter : Len(r) = n - 1}, x \in S}

\* the JSON arrays a page can carry: the records of one page are distinct and
\* listed in ascending order of their identity
PageBodies ==
    {b \in SeqsUpTo(ItemIds, MaxPageLen) :
        \A i \in 1..Len(b) : \A j \in 1..Len(b) : i < j => b[i] < b[j]}

\* a transport-level fault: requests.get raises a RequestException
FaultReply ==
    [fault |-> TRUE, status |-> 0, json |-> FALSE, body |-> <<>>,
     link |-> [kind |-> "absent", text |-> PyNone, next |-> PyNone]]

\* an HTTP reply with a status, a body (JSON or not) and a Link header
HttpReply(st, js, b, l) ==
    [fault |-> FALSE, status |-> st, json |-> js, body |-> b, link |-> l]

\* every reply the server can give to a page request
PageReplies ==
    {FaultReply} \cup
    {HttpReply(st, FALSE, <<>>, CHOOSE l \in LinkHeaders : l.kind = "absent") :
        st \in Statuses} \cup
    {HttpReply(st, TRUE, b, l) :
        st \in {s \in Statuses : s < 400}, b \in PageBodies, l \in LinkHeaders}

\* the reply is a failure in the sense of the gateway contract
IsFailure(reply) == reply.fault \/ reply.status < 200 \/ reply.status > 299

\* what make_api_request returns when it returns None
NoResponse == [none |-> TRUE, status |-> 0, json |-> FALSE, body |-> <<>>, text |-> PyNone]

\* Response.raise_for_status raises for these statuses
RaisesForStatus(st) == st >= 400 /\ st < 600

\* make_api_request(url) when the server answers with reply
make_api_request(reply) ==
    IF reply.fault \/ RaisesForStatus(reply.status)
    THEN NoResponse
    ELSE [none |-> FALSE, status |-> reply.status, json |-> reply.json,
          body |-> reply.body, text |-> reply.link.text]

\* truth value of an Optional[Response]: Response.__bool__ is Response.ok
ResponseTruthy(response) == ~response.none /\ ~RaisesForStatus(response.status)

----------------------------------------------------------------------------
(* get_all_paginated_items.                                                *)

\* the entries of link_header.split(", "), each split at "; "
LinkParts(text) ==
    LET entries == Split(text, <<",", " ">>)
    IN [i \in 1..Len(entries) |-> Split(entries[i], <<";", " ">>)]

\* the dict comprehension raises IndexError when an entry has no second part
LinksRaises(text) ==
    LET parts == LinkParts(text)
    IN \E i \in 1..Len(parts) : Len(parts[i]) < 2

\* a variant that takes the url of the first entry, whatever its relation
LinksGetFirst(text, key) ==
    LET parts == LinkParts(text)
    IN PyStr(SliceToLast(parts[1][1], 1))

\* links.get(key) of the dict {parts[1][5:-1]: parts[0][1:-1]}: a later entry
\* with the same key replaces an earlier one
LinksGet(text, key) ==
    LET parts == LinkParts(text)
        hits == {i \in 1..Len(parts) : SliceToLast(parts[i][2], 5) = key}
    IN IF hits = {} THEN PyNone
       ELSE PyStr(SliceToLast(parts[CHOOSE i \in hits : \A j \in hits : j <= i][1], 1))

\* a variant that puts the new page in front of the items
ItemsExtendFront(its, more) == more \o its

\* items.extend(response.json())
ItemsExtend(its, more) == its \o more

\* the loop condition: url and page_count < self.max_pages
WalkCondition(u, n, mp) == Truthy(u) /\ n < mp

\* one iteration of the loop, for the reply the request gets
WalkBody(u, n, its, reply) ==
    LET response == make_api_request(reply)
    IN IF ResponseTruthy(response)
       THEN IF ~response.json
            THEN [url |-> u, page_count |-> n, items |-> its, wstate |-> "raised"]
            ELSE LET its2 == ItemsExtend(its, response.body)
                     link_header == response.text
                 IN IF Truthy(link_header)
                    THEN IF LinksRaises(link_header.s)
                         THEN [url |-> u, page_count |-> n, items |-> its2,
                               wstate |-> "raised"]
                         ELSE [url |-> LinksGet(link_header.s, RelNext),
                               page_count |-> n + 1, items |-> its2,
                               wstate |-> "loop"]
                    ELSE [url |-> u, page_count |-> n, items |-> its2,
                          wstate |-> "returned"]
       ELSE [url |-> u, page_count |-> n, items |-> its, wstate |-> "returned"]

\* what the history keeps of a reply
Fetched(reply) ==
    [failed |-> IsFailure(reply), json |-> reply.json, body |-> reply.body,
     kind |-> reply.link.kind, next |-> reply.link.next]

\* get_all_paginated_items(u) is entered
WalkCall(u) ==
    /\ wstate = "idle"
    /\ url' = PyStr(u)
    /\ page_count' = 0
    /\ items' = <<>>
    /\ wstate' = "loop"
    /\ requested' = <<>>
    /\ fetched' = <<>>
    /\ UNCHANGED <<cfgvars, earlier, asmvars, runvars>>

\* one iteration: the request, and what the loop does with the reply
WalkIter ==
    /\ wstate = "loop"
    /\ WalkCondition(url, page_count, max_pages)
    /\ Len(requested) < MaxRequests
    /\ \E reply \in PageReplies :
         LET r == WalkBody(url, page_count, items, reply)
         IN /\ url' = r.url
            /\ page_count' = r.page_count
            /\ items' = r.items
            /\ wstate' = r.wstate
            /\ requested' = Append(requested, url.s)
            /\ fetched' = Append(fetched, Fetched(reply))
    /\ UNCHANGED <<cfgvars, earlier, asmvars, runvars>>

\* the loop condition is false: return items
WalkExit ==
    /\ wstate = "loop"
    /\ ~WalkCondition(url, page_count, max_pages)
    /\ wstate' = "returned"
    /\ UNCHANGED <<cfgvars, url, page_count, items, requested, fetched, earlier,
                   asmvars, runvars>>

----------------------------------------------------------------------------
(* The constructor.                                                        *)

DefaultMaxPages == 100000

\* self.max_pages for the max_pages argument (0: None or 0, both falsy)
InitMaxPages(arg) == IF arg # 0 THEN arg ELSE DefaultMaxPages

\* an optional int argument: None, or an int
NoArg == [none |-> TRUE, n |-> 0]
IntArg(n) == [none |-> FALSE, n |-> n]

\* truth value of an optional int: None and 0 are falsy
ArgTruthy(arg) == ~arg.none /\ arg.n # 0

\* a variant without the upper limit: "if per_page:"
InitPerPageUnclamped(arg) == IF ArgTruthy(arg) THEN arg.n ELSE 100

\* self.per_page for the per_page argument: "if per_page and per_page < 100"
InitPerPage(arg) == IF ArgTruthy(arg) /\ arg.n < 100 THEN arg.n ELSE 100

\* the collector was built without a per_page argument
PerPageNotGiven ==
    /\ per_page_arg = NoArg
    /\ per_page = InitPerPage(NoArg)

----------------------------------------------------------------------------
(* The walk on its own: get_all_paginated_items called on a new collector. *)

\* no walk is in progress
WalkIdle ==
    /\ url = PyNone
    /\ page_count = 0
    /\ items = <<>>
    /\ wstate = "idle"
    /\ requested = <<>>
    /\ fetched = <<>>
    /\ earlier = 0

\* build_pr_data_row is not under test
AsmIdle ==
    /\ asm_in = [used |-> FALSE]
    /\ asm_out = [done |-> FALSE]

\* no entry point runs
RunIdle ==
    /\ entry = "none"
    /\ repo = ""
    /\ db_type = "none"
    /\ writes = <<>>
    /\ pc = "idle"
    /\ token = [result |-> "unchecked"]
    /\ repos = <<>>
    /\ repo_idx = 0
    /\ prs = <<>>
    /\ pr_idx = 0
    /\ page = 0
    /\ rows = <<>>
    /\ table = <<>>
    /\ docs = <<>>
    /\ csv = <<>>
    /\ reqs = {}
    /\ scanned = {}
    /\ assembled = <<>>

InitWalk ==
    /\ max_pages \in {InitMaxPages(a) : a \in 0..MaxPagesArg}
    /\ PerPageNotGiven
    /\ WalkIdle
    /\ AsmIdle
    /\ RunIdle

NextWalk ==
    \/ WalkCall(UrlA)
    \/ WalkIter
    \/ WalkExit

SpecWalk == InitWalk /\ [][NextWalk]_vars

----------------------------------------------------------------------------
(* The assembly of one pull-request row: fetch_comments, fetch_commits,     *)
(* create_commit_info, build_pr_data_row.                                   *)

\* a reply to a request that is no listing page: no Link header
PlainReply(st, js, b) ==
    [fault |-> FALSE, status |-> st, json |-> js, body |-> b,
     link |-> [kind |-> "absent", text |-> PyNone, next |-> PyNone]]

\* response and response.status_code == 200
ResponseIs200(response) == ResponseTruthy(response) /\ response.status = 200

\* a variant that writes the separator after every string, the last included
RECURSIVE JoinEachWithSpace(_)
JoinEachWithSpace(strs) ==
    IF Len(strs) = 0 THEN ""
    ELSE strs[1] \o " " \o JoinEachWithSpace(Tail(strs))

\* " ".join(strs)
RECURSIVE JoinWithSpace(_)
JoinWithSpace(strs) ==
    IF Len(strs) = 0 THEN ""
    ELSE IF Len(strs) = 1 THEN strs[1]
    ELSE strs[1] \o " " \o JoinWithSpace(Tail(strs))

\* a variant that reads response.json() without the test of the response: it
\* raises when the request failed
fetch_comments_unguarded(reply) ==
    LET response == make_api_request(reply)
    IN IF response.none \/ ~response.json
          \/ \E i \in 1..Len(response.body) : "body" \notin DOMAIN response.body[i]
       THEN [exc |-> TRUE, val |-> ""]
       ELSE [exc |-> FALSE,
             val |-> JoinWithSpace([i \in 1..Len(response.body) |->
                                       response.body[i].body])]

\* fetch_comments(pr_comments_url) for the reply the request gets.
\* exc: response.json() raised, or a comment has no "body" key
fetch_comments(reply) ==
    LET response == make_api_request(reply)
    IN IF ResponseIs200(response)
       THEN IF ~response.json \/ \E i \in 1..Len(response.body) :
                                    "body" \notin DOMAIN response.body[i]
            THEN [exc |-> TRUE, val |-> ""]
            ELSE [exc |-> FALSE,
                  val |-> JoinWithSpace([i \in 1..Len(response.body) |->
                                            response.body[i].body])]
       ELSE [exc |-> FALSE, val |-> ""]

\* a variant that returns an empty dict for a failed detail request
CommitErrorEntryEmpty(commit_url) == <<>>

\* the dict returned for a commit whose detail request failed
CommitErrorEntry(commit_url) ==
    [error |-> "Failed to fetch commit data for " \o commit_url]

\* files_diff: filename -> patch, "No diff available" for a file without patch;
\* a later file of the same name replaces an earlier one
FilesDiff(files) ==
    [name \in {files[i].filename : i \in 1..Len(files)} |->
        LET last == CHOOSE i \in 1..Len(files) :
                       /\ files[i].filename = name
                       /\ \A j \in 1..Len(files) : files[j].filename = name => j <= i
        IN IF "patch" \in DOMAIN files[last] THEN files[last].patch
           ELSE "No diff available"]

\* create_commit_info(commit_url) for the reply the request gets.
\* exc: response.json() raised, or "stats" or "sha" is missing
create_commit_info(commit_url, reply) ==
    LET commit_response == make_api_request(reply)
    IN IF ResponseIs200(commit_response)
       THEN IF \/ ~commit_response.json
               \/ "stats" \notin DOMAIN commit_response.body
               \/ "sha" \notin DOMAIN commit_response.body
            THEN [exc |-> TRUE, val |-> [error |-> ""]]
            ELSE LET commit_data == commit_response.body
                 IN [exc |-> FALSE,
                     val |-> [commit_id |-> commit_data.sha,
                              additions |-> commit_data.stats.additions,
                              deletions |-> commit_data.stats.deletions,
                              files_diff |->
                                 FilesDiff(IF "files" \in DOMAIN commit_data
                                           THEN commit_data.files ELSE <<>>)]]
       ELSE [exc |-> FALSE, val |-> CommitErrorEntry(commit_url)]

\* truth value of a dict: the empty dict is falsy
DictTruthy(d) == DOMAIN d # {}

\* the loop of fetch_commits over commits_data[i..]: detail[i] answers the
\* request for the i-th listed commit.  requests: the detail urls requested
RECURSIVE CommitsLoop(_, _, _, _)
CommitsLoop(commits_data, detail, i, acc) ==
    IF i > Len(commits_data) THEN acc
    ELSE IF "url" \notin DOMAIN commits_data[i]
    THEN [acc EXCEPT !.exc = TRUE]
    ELSE LET commit_info == create_commit_info(commits_data[i].url, detail[i])
             asked == Append(acc.requests, commits_data[i].url)
         IN IF commit_info.exc
            THEN [acc EXCEPT !.exc = TRUE, !.requests = asked]
            ELSE CommitsLoop(commits_data, detail, i + 1,
                             [acc EXCEPT !.val = IF DictTruthy(commit_info.val)
                                                 THEN Append(acc.val, commit_info.val)
                                                 ELSE acc.val,
                                         !.requests = asked])

\* fetch_commits(commits_url) for the reply to the list request and the replies
\* to the detail requests
fetch_commits(reply, detail) ==
    LET response == make_api_request(reply)
        start == [exc |-> FALSE, val |-> <<>>, requests |-> <<>>]
    IN IF ResponseIs200(response)
       THEN IF ~response.json THEN [start EXCEPT !.exc = TRUE]
            ELSE CommitsLoop(response.body, detail, 1, start)
       ELSE start

\* a Python value that is an int or a str
PyInt(n) == [int |-> TRUE, n |-> n, s |-> ""]
PyText(t) == [int |-> FALSE, n |-> 0, s |-> t]

\* a variant without the sentinel: len(commits_info)
CommitsCountLen(commits_info) == PyInt(Len(commits_info))

\* a variant that counts only the entries that are not error markers
CommitsCountFetched(commits_info) ==
    IF Len(commits_info) # 0
    THEN PyInt(Cardinality({i \in 1..Len(commits_info) :
                               "error" \notin DOMAIN commits_info[i]}))
    ELSE PyText("N/A")

\* len(commits_info) if commits_info else "N/A"
CommitsCount(commits_info) ==
    IF Len(commits_info) # 0 THEN PyInt(Len(commits_info)) ELSE PyText("N/A")

\* the keys of the PR summary that build_pr_data_row reads with pr[...]
RequiredPrKeys ==
    {"id", "state", "created_at", "updated_at", "merged_at", "title", "user",
     "diff_url", "body"}

\* what build_pr_data_row returns when it returns None
NoRow == [none |-> TRUE]

\* build_pr_data_row(pr, repo_name).  row: the dict, or NoRow after a caught
\* exception; requests: the urls requested, in order
build_pr_data_row(pr, repo_name, comments_reply, commits_reply, detail) ==
    IF "comments_url" \notin DOMAIN pr
    THEN [row |-> NoRow, requests |-> <<>>]
    ELSE
    LET comments_str == fetch_comments(comments_reply)
        asked1 == <<pr.comments_url>>
    IN IF comments_str.exc \/ "commits_url" \notin DOMAIN pr
       THEN [row |-> NoRow, requests |-> asked1]
       ELSE
       LET commits_info == fetch_commits(commits_reply, detail)
           asked2 == asked1 \o <<pr.commits_url>> \o commits_info.requests
       IN IF \/ commits_info.exc
             \/ ~(RequiredPrKeys \subseteq DOMAIN pr)
             \/ "login" \notin DOMAIN pr.user
          THEN [row |-> NoRow, requests |-> asked2]
          ELSE [row |->
                  [none |-> FALSE,
                   repo_name |-> repo_name,
                   pr_id |-> pr.id,
                   pr_state |-> pr.state,
                   pr_created_at |-> pr.created_at,
                   pr_updated_at |-> pr.updated_at,
                   pr_merged_at |-> pr.merged_at,
                   pr_title |-> pr.title,
                   pr_user_login |-> pr.user.login,
                   pr_diff_url |-> pr.diff_url,
                   pr_body |-> pr.body,
                   pr_reviwer |-> IF "requested_reviewers" \in DOMAIN pr
                                  THEN pr.requested_reviewers ELSE <<>>,
                   pr_comments_count |-> IF "comments" \in DOMAIN pr
                                         THEN pr.comments ELSE 0,
                   pr_comments |-> comments_str.val,
                   pr_commits_count |-> CommitsCount(commits_info.val),
                   pr_commits_info |-> commits_info.val],
                requests |-> asked2]

----------------------------------------------------------------------------
(* Properties of the walk.                                                 *)

\* the concatenation of the bodies of the first n fetched pages
RECURSIVE ConcatBodies(_, _)
ConcatBodies(f, n) ==
    IF n = 0 THEN <<>> ELSE ConcatBodies(f, n - 1) \o f[n].body

\* the page was fetched successfully: a 2xx reply with a JSON array
FetchedOk(f) == ~f.failed /\ f.json

\* every page fetched so far is a page of a chain: fetched successfully, its
\* Link header absent or well-formed
ChainSoFar == \A i \in 1..Len(fetched) :
                 FetchedOk(fetched[i]) /\ fetched[i].kind \in {"absent", "wf"}

\* C1: on a chain of pages linked by "next" relations the walk returns the
\* concatenation of the fetched pages' items in server order (no reordering, no
\* deduplication), every request after the first goes to the url the previous
\* page labelled "next", the walk ends before max_pages requests only at the
\* page that has no "next" relation, and it never issues more than max_pages
\* page requests.
C1_WalkConcatenatesPages ==
    /\ Len(requested) <= max_pages
    /\ (wstate = "returned" /\ ChainSoFar) =>
          /\ items = ConcatBodies(fetched, Len(fetched))
          /\ Len(fetched) = Len(requested)
          /\ Len(requested) >= 1
          /\ \A i \in 2..Len(requested) : PyStr(requested[i]) = fetched[i - 1].next
          /\ Len(requested) < max_pages => fetched[Len(fetched)].next = PyNone

\* a chain of two pages, both fetched, the second without a "next" relation
C1_Witness ==
    /\ wstate = "returned"
    /\ ChainSoFar
    /\ Len(fetched) = 2
    /\ fetched[1].kind = "wf"
    /\ fetched[2].next = PyNone
    /\ Len(items) = 2
    /\ items[1] # items[2]

\* C2: whatever the Link header of a successfully fetched page is (absent,
\* malformed), the walk terminates without raising: an absent or malformed
\* header ends the walk, which returns the items up to and including that page.
C2_MalformedHeaderEndsWalk ==
    \A i \in 1..Len(fetched) :
        (FetchedOk(fetched[i]) /\ fetched[i].kind \in {"absent", "malformed"}) =>
            /\ i = Len(fetched)
            /\ wstate = "returned"
            /\ items = ConcatBodies(fetched, i)

\* C3: a page request that fails (non-2xx status or transport fault) at
\* position k ends the walk, which returns the items of pages 1..k-1 without
\* raising.
C3_FailureEndsWalk ==
    \A k \in 1..Len(fetched) :
        fetched[k].failed =>
            /\ k = Len(fetched)
            /\ wstate = "returned"
            /\ items = ConcatBodies(fetched, k - 1)

----------------------------------------------------------------------------
(* build_pr_data_row on its own: the inputs it is given.                   *)

\* a PR lists at most this many commits
MaxCommits == 2

\* the summary of pull request i as the listing returns it
PrSummary(i) ==
    [id |-> i, state |-> "open", created_at |-> "t1", updated_at |-> "t2",
     merged_at |-> "null", title |-> "title", user |-> [login |-> "dev"],
     diff_url |-> "diff", body |-> "text",
     comments_url |-> "comments", commits_url |-> "commits",
     requested_reviewers |-> <<"rev">>, comments |-> 2]

\* pr without the key k
WithoutKey(pr, k) == [f \in (DOMAIN pr) \ {k} |-> pr[f]]

\* summaries with every key, of a PR without comments, without the optional
\* keys, and without one required key
PrInputs ==
    { PrSummary(1),
      [PrSummary(1) EXCEPT !.comments = 0],
      WithoutKey(WithoutKey(PrSummary(1), "comments"), "requested_reviewers"),
      WithoutKey(PrSummary(1), "body"),
      WithoutKey(PrSummary(1), "comments_url"),
      WithoutKey(PrSummary(1), "commits_url"),
      [PrSummary(1) EXCEPT !.user = [id |-> 9]] }

\* replies that are failures of the request, and a 204 without content
FailedReplies == {FaultReply, PlainReply(404, FALSE, <<>>), PlainReply(500, FALSE, <<>>),
                  PlainReply(304, FALSE, <<>>)}
NoContentReply == PlainReply(204, FALSE, <<>>)

\* the comment arrays of the comments endpoint; the last has a comment
\* without "body"
CommentBodies ==
    { <<>>, <<[body |-> "hello"]>>, <<[body |-> "hello"], [body |-> "world"]>>,
      <<[body |-> "hello"], [id |-> 7]>> }

CommentReplies ==
    FailedReplies \cup {NoContentReply, PlainReply(200, FALSE, <<>>)} \cup
    {PlainReply(200, TRUE, b) : b \in CommentBodies}

\* the urls of the commits a commit list can name
CommitUrls == {"c1", "c2"}

\* the arrays of the commits endpoint: at most MaxCommits entries with a url
CommitLists ==
    {[i \in 1..Len(q) |-> [url |-> q[i]]] : q \in SeqsUpTo(CommitUrls, MaxCommits)}

CommitListReplies ==
    FailedReplies \cup {NoContentReply, PlainReply(200, FALSE, <<>>)} \cup
    {PlainReply(200, TRUE, b) : b \in CommitLists}

\* the detail of a commit as the API documents it, the same without "files",
\* and a body without "stats"
CommitDetail ==
    [sha |-> "sha", stats |-> [additions |-> 3, deletions |-> 1],
     files |-> <<[filename |-> "a.py", patch |-> "@@"], [filename |-> "b.png"]>>]

DetailReplies ==
    FailedReplies \cup {NoContentReply, PlainReply(200, FALSE, <<>>)} \cup
    {PlainReply(200, TRUE, CommitDetail),
     PlainReply(200, TRUE, WithoutKey(CommitDetail, "files")),
     PlainReply(200, TRUE, WithoutKey(CommitDetail, "stats"))}

\* one detail reply for each commit a list can name
DetailInputs == [1..MaxCommits -> DetailReplies]

InitAssemble ==
    /\ max_pages = DefaultMaxPages
    /\ PerPageNotGiven
    /\ WalkIdle
    /\ RunIdle
    /\ asm_in \in [used : {TRUE}, pr : PrInputs, comments : CommentReplies,
                   commits : CommitListReplies, detail : DetailInputs]
    /\ asm_out = [done |-> FALSE]

\* build_pr_data_row(pr, "repo") is called and returns
Assemble ==
    /\ asm_in.used
    /\ ~asm_out.done
    /\ LET r == build_pr_data_row(asm_in.pr, "repo", asm_in.comments,
                                  asm_in.commits, asm_in.detail)
       IN asm_out' = [done |-> TRUE, row |-> r.row, requests |-> r.requests]
    /\ UNCHANGED <<cfgvars, walkvars, asm_in, runvars>>

NextAssemble == Assemble

SpecAssemble == InitAssemble /\ [][NextAssemble]_vars

----------------------------------------------------------------------------
(* Properties of the assembly.                                             *)

\* the summary has every key build_pr_data_row reads
PrComplete(pr) ==
    /\ RequiredPrKeys \cup {"comments_url", "commits_url"} \subseteq DOMAIN pr
    /\ "login" \in DOMAIN pr.user

\* a 200 reply whose body is JSON
Is200Json(reply) == ~reply.fault /\ reply.status = 200 /\ reply.json

\* the comments reply is a 200 with an array of comments that all have a body
CommentsConform(reply) ==
    Is200Json(reply) /\ \A i \in 1..Len(reply.body) : "body" \in DOMAIN reply.body[i]

\* the detail reply is a 200 with a body of the documented shape
DetailConforms(reply) ==
    Is200Json(reply) /\ {"sha", "stats"} \subseteq DOMAIN reply.body

\* the commits part of the input raises nothing: the list request fails or is
\* not a 200, or it lists commits whose details fail or conform
CommitsPartQuiet(in) ==
    \/ in.commits.fault \/ in.commits.status # 200
    \/ /\ Is200Json(in.commits)
       /\ \A i \in 1..Len(in.commits.body) :
             IsFailure(in.detail[i]) \/ in.detail[i].status # 200
                \/ DetailConforms(in.detail[i])

\* the comments part of the input raises nothing
CommentsPartQuiet(in) ==
    in.comments.fault \/ in.comments.status # 200 \/ CommentsConform(in.comments)

\* the fields of the row that are copied from the summary
RowCopiesSummary(row, pr) ==
    /\ row.repo_name = "repo"
    /\ row.pr_id = pr.id
    /\ row.pr_state = pr.state
    /\ row.pr_created_at = pr.created_at
    /\ row.pr_updated_at = pr.updated_at
    /\ row.pr_merged_at = pr.merged_at
    /\ row.pr_title = pr.title
    /\ row.pr_user_login = pr.user.login
    /\ row.pr_diff_url = pr.diff_url
    /\ row.pr_body = pr.body

\* C6: when the commit list is fetched with m commit urls and each detail
\* fetch fails or succeeds with a detail of the documented shape, the row is
\* produced and its commit list has exactly m entries, in listing order: the
\* error marker naming the commit's url for a failed detail fetch, the detail
\* for a successful one.
C6_OneEntryPerCommit ==
    (/\ asm_out.done
     /\ PrComplete(asm_in.pr)
     /\ CommentsPartQuiet(asm_in)
     /\ Is200Json(asm_in.commits)
     /\ \A i \in 1..Len(asm_in.commits.body) :
           IsFailure(asm_in.detail[i]) \/ DetailConforms(asm_in.detail[i]))
    => /\ ~asm_out.row.none
       /\ Len(asm_out.row.pr_commits_info) = Len(asm_in.commits.body)
       /\ \A i \in 1..Len(asm_in.commits.body) :
             LET got == asm_out.row.pr_commits_info[i]
             IN IF IsFailure(asm_in.detail[i])
                THEN got = [error |-> "Failed to fetch commit data for " \o
                                        asm_in.commits.body[i].url]
                ELSE /\ DOMAIN got = {"commit_id", "additions", "deletions",
                                      "files_diff"}
                     /\ got.commit_id = asm_in.detail[i].body.sha

\* two commits listed, the detail of the first fails, the second succeeds
C6_Witness ==
    /\ asm_out.done
    /\ PrComplete(asm_in.pr)
    /\ Is200Json(asm_in.commits)
    /\ Len(asm_in.commits.body) = 2
    /\ IsFailure(asm_in.detail[1])
    /\ DetailConforms(asm_in.detail[2])
    /\ ~asm_out.row.none
    /\ Len(asm_out.row.pr_commits_info) = 2

\* C7: when the request to the comments endpoint fails, the row is still
\* produced (unless the summary or the commits part makes the assembly fail),
\* its comment text is the empty string, and its other fields and its commit
\* data are what the summary and the commit requests give.
C7_CommentsFailureKeepsRow ==
    (/\ asm_out.done
     /\ IsFailure(asm_in.comments)
     /\ PrComplete(asm_in.pr)
     /\ CommitsPartQuiet(asm_in))
    => /\ ~asm_out.row.none
       /\ asm_out.row.pr_comments = ""
       /\ RowCopiesSummary(asm_out.row, asm_in.pr)
       /\ asm_out.row.pr_commits_info =
             fetch_commits(asm_in.commits, asm_in.detail).val
       /\ asm_out.row.pr_commits_count =
             CommitsCount(asm_out.row.pr_commits_info)

\* the comments request fails, the commits are fetched, the row is there
C7_Witness ==
    /\ asm_out.done
    /\ IsFailure(asm_in.comments)
    /\ PrComplete(asm_in.pr)
    /\ Is200Json(asm_in.commits)
    /\ Len(asm_in.commits.body) = 1
    /\ DetailConforms(asm_in.detail[1])
    /\ ~asm_out.row.none
    /\ asm_out.row.pr_comments = ""
    /\ Len(asm_out.row.pr_commits_info) = 1

\* C8: when the request to the commit-list endpoint fails, the row is still
\* produced, its commit count is "N/A", its commit list is empty, and no
\* commit-detail request is issued: the only requests are the comments and the
\* commit-list request.
C8_CommitListFailureKeepsRow ==
    (/\ asm_out.done
     /\ IsFailure(asm_in.commits)
     /\ PrComplete(asm_in.pr)
     /\ CommentsPartQuiet(asm_in))
    => /\ ~asm_out.row.none
       /\ asm_out.row.pr_commits_count = PyText("N/A")
       /\ asm_out.row.pr_commits_info = <<>>
       /\ asm_out.requests = <<asm_in.pr.comments_url, asm_in.pr.commits_url>>

\* the commit-list request fails, the comments are fetched, the row is there
C8_Witness ==
    /\ asm_out.done
    /\ IsFailure(asm_in.commits)
    /\ PrComplete(asm_in.pr)
    /\ CommentsConform(asm_in.comments)
    /\ Len(asm_in.comments.body) = 2
    /\ ~asm_out.row.none
    /\ asm_out.row.pr_comments = "hello world"
    /\ asm_out.row.pr_commits_count = PyText("N/A")

\* C22: in every assembled row the commit count and the commit list agree: the
\* count is the sentinel "N/A" exactly when the list is empty, and otherwise
\* it is the number of entries of the list, error markers included; a PR with
\* zero comments and zero commits gives pr_comments_count 0, pr_commits_count
\* "N/A" and the empty comment string.
C22_CountAgreesWithList ==
    (asm_out.done /\ ~asm_out.row.none)
    => /\ asm_out.row.pr_commits_count = PyText("N/A")
             <=> asm_out.row.pr_commits_info = <<>>
       /\ asm_out.row.pr_commits_info # <<>>
             => asm_out.row.pr_commits_count =
                   PyInt(Len(asm_out.row.pr_commits_info))
       /\ (/\ "comments" \notin DOMAIN asm_in.pr \/ asm_in.pr.comments = 0
           /\ CommentsConform(asm_in.comments)
           /\ Len(asm_in.comments.body) = 0
           /\ Is200Json(asm_in.commits)
           /\ Len(asm_in.commits.body) = 0)
          => /\ asm_out.row.pr_comments_count = 0
             /\ asm_out.row.pr_commits_count = PyText("N/A")
             /\ asm_out.row.pr_comments = ""

\* the summary counts zero comments, both endpoints answer with an empty
\* array, and the row has the count 0, the sentinel and the empty text
C22_Witness ==
    /\ asm_out.done
    /\ PrComplete(asm_in.pr)
    /\ "comments" \in DOMAIN asm_in.pr
    /\ asm_in.pr.comments = 0
    /\ asm_in.comments = PlainReply(200, TRUE, <<>>)
    /\ asm_in.commits = PlainReply(200, TRUE, <<>>)
    /\ ~asm_out.row.none
    /\ asm_out.row.pr_comments_count = 0
    /\ asm_out.row.pr_commits_count = PyText("N/A")
    /\ asm_out.row.pr_commits_info = <<>>
    /\ asm_out.row.pr_comments = ""

\* the bodies of the first n comments, each but the first after one space
RECURSIVE BodiesUpTo(_, _)
BodiesUpTo(comments, n) ==
    IF n = 0 THEN ""
    ELSE IF n = 1 THEN comments[1].body
    ELSE BodiesUpTo(comments, n - 1) \o " " \o comments[n].body

\* how many times the url u is requested in the sequence of requests q
Occurrences(q, u) == Cardinality({i \in 1..Len(q) : q[i] = u})

\* C24: the comment text of a row is the bodies of the PR's comments in the
\* order the API returned them, joined with exactly one space, with nothing
\* before the first or after the last (the empty string when there are none),
\* and the comments endpoint is requested exactly once for the PR.
C24_CommentsJoinedOnce ==
    /\ (asm_out.done /\ "comments_url" \in DOMAIN asm_in.pr)
       => Occurrences(asm_out.requests, asm_in.pr.comments_url) = 1
    /\ (/\ asm_out.done
        /\ PrComplete(asm_in.pr)
        /\ CommentsConform(asm_in.comments)
        /\ CommitsPartQuiet(asm_in))
       => /\ ~asm_out.row.none
          /\ asm_out.row.pr_comments =
                BodiesUpTo(asm_in.comments.body, Len(asm_in.comments.body))
          /\ Len(asm_in.comments.body) = 0 => asm_out.row.pr_comments = ""
          /\ asm_in.comments.body = <<[body |-> "hello"], [body |-> "world"]>>
                => asm_out.row.pr_comments = "hello world"

\* two comments and a listed commit are fetched, and the text joins the two
C24_Witness ==
    /\ asm_out.done
    /\ PrComplete(asm_in.pr)
    /\ asm_in.comments.fault = FALSE
    /\ CommentsConform(asm_in.comments)
    /\ asm_in.comments.body = <<[body |-> "hello"], [body |-> "world"]>>
    /\ Is200Json(asm_in.commits)
    /\ Len(asm_in.commits.body) = 1
    /\ DetailConforms(asm_in.detail[1])
    /\ ~asm_out.row.none
    /\ asm_out.row.pr_comments = "hello world"
    /\ asm_out.requests = <<asm_in.pr.comments_url, asm_in.pr.commits_url, "c1">>

----------------------------------------------------------------------------
(* The credential check and the two entry points.                          *)

Organization == "org"

\* is_token_valid() for the reply the identity request gets: "raised" when
\* requests.get raises (the call is in no try block), else the boolean
is_token_valid(reply) ==
    IF reply.fault THEN "raised"
    ELSE IF reply.status # 200 THEN "false"
    ELSE IF reply.status = 200 THEN "true" ELSE "false"

\* a variant that tests "is_token_valid() is None"
ExitsOnTokenIsNone(e, valid) == FALSE

\* the entry point calls sys.exit(): create_csv tests
\* "is_token_valid() is False", main tests "not is_token_valid()"
ExitsOnToken(e, valid) ==
    IF e = "create_csv" THEN valid = FALSE ELSE ~valid

TokenReplies == {FaultReply} \cup {PlainReply(st, FALSE, <<>>) : st \in Statuses}

\* the while loop of get_all_paginated_items run to its end: the k-th request
\* gets the k-th reply of the script, and a transport fault after its end
RECURSIVE WalkLoop(_, _, _)
WalkLoop(st, mp, script) ==
    IF st.wstate # "loop" THEN st
    ELSE IF ~WalkCondition(st.url, st.page_count, mp)
    THEN [st EXCEPT !.wstate = "returned"]
    ELSE LET reply == IF script = <<>> THEN FaultReply ELSE Head(script)
             r == WalkBody(st.url, st.page_count, st.items, reply)
         IN WalkLoop([url |-> r.url, page_count |-> r.page_count,
                      items |-> r.items, wstate |-> r.wstate,
                      nreq |-> st.nreq + 1, asked |-> Append(st.asked, st.url.s)],
                     mp, IF script = <<>> THEN <<>> ELSE Tail(script))

\* get_all_paginated_items(u) as one call
get_all_paginated_items(u, mp, script) ==
    WalkLoop([url |-> PyStr(u), page_count |-> 0, items |-> <<>>,
              wstate |-> "loop", nreq |-> 0, asked |-> <<>>], mp, script)

ReposUrl == <<"/", "o", "r", "g", "s">>
PullsUrl == <<"/", "p", "u", "l", "l", "s">>

\* get_repos() and get_pull_requests(owner, repo_name)
get_repos(mp, script) == get_all_paginated_items(ReposUrl, mp, script)
get_pull_requests(mp, script) == get_all_paginated_items(PullsUrl, mp, script)

\* the repository and the pull request that a listing item i stands for; the
\* second repository belongs to another owner, the third pull request has no
\* "body"
RepoCat(i) ==
    IF i = 1 THEN [name |-> "r1", owner |-> [login |-> Organization]]
    ELSE [name |-> "r2", owner |-> [login |-> "other"]]
PrCat(i) == IF i = 3 THEN WithoutKey(PrSummary(3), "body") ELSE PrSummary(i)

\* the listings of a run: what the server answers to the successive page
\* requests of one walk
HdrAbsent == CHOOSE l \in LinkHeaders : l.kind = "absent"
HdrNext == CHOOSE l \in LinkHeaders : l.kind = "wf" /\ l.next = PyStr(UrlB)
HdrBad == CHOOSE l \in LinkHeaders : l.kind = "malformed" /\ l.text = PyStr(<<"x">>)
ListPage(b, l) == HttpReply(200, TRUE, b, l)

RepoListings ==
    { <<>>,
      <<ListPage(<<1>>, HdrAbsent)>>,
      <<ListPage(<<1, 2>>, HdrNext), ListPage(<<>>, HdrAbsent)>>,
      <<ListPage(<<1>>, HdrNext), ListPage(<<2>>, HdrAbsent)>>,
      <<ListPage(<<1>>, HdrBad)>> }

PrListings ==
    { <<>>,
      <<ListPage(<<1>>, HdrAbsent)>>,
      <<ListPage(<<3, 2>>, HdrAbsent)>>,
      <<ListPage(<<1>>, HdrNext), ListPage(<<2>>, HdrAbsent)>>,
      <<ListPage(<<2>>, HdrBad)>> }

\* the replies to one page request of fetch_and_process_prs
StreamPageReplies ==
    { FaultReply, PlainReply(304, FALSE, <<>>), PlainReply(200, FALSE, <<>>),
      PlainReply(200, TRUE, <<>>), PlainReply(200, TRUE, <<1>>),
      PlainReply(200, TRUE, <<3, 2>>) }

\* fetch_and_process_prs is explored up to this page
MaxStreamPages == 2
\* a run is explored up to this many calls of build_pr_data_row
MaxAssemblies == 4

\* the replies to the requests of one assembly in a run: every request
\* succeeds, every request fails, and a commit detail without "stats"
RunAssemblyInputs ==
    { [comments |-> PlainReply(200, TRUE, <<[body |-> "hello"]>>),
       commits |-> PlainReply(200, TRUE, <<[url |-> "c1"]>>),
       detail |-> [i \in 1..MaxCommits |-> PlainReply(200, TRUE, CommitDetail)]],
      [comments |-> FaultReply, commits |-> FaultReply,
       detail |-> [i \in 1..MaxCommits |-> FaultReply]],
      [comments |-> PlainReply(200, TRUE, <<>>),
       commits |-> PlainReply(200, TRUE, <<[url |-> "c1"]>>),
       detail |-> [i \in 1..MaxCommits |->
                     PlainReply(200, TRUE, WithoutKey(CommitDetail, "stats"))]] }

\* "if pr_data:" -- None is falsy, the row dict is not empty
RowTruthy(row) == ~row.none

\* a variant without the test: rows.append(pr_data)
RowsAppendAlways(rs, row) == Append(rs, row)

\* rows.append(pr_data) under "if pr_data:"
RowsAppend(rs, row) == IF RowTruthy(row) THEN Append(rs, row) ELSE rs

\* the parameters of the INSERT of insert_pr_data, in order
InsertColumns(row) ==
    <<row.repo_name, row.pr_id, row.pr_state, row.pr_created_at,
      row.pr_updated_at, row.pr_merged_at, row.pr_title, row.pr_user_login,
      row.pr_diff_url, row.pr_comments_count, row.pr_commits_count>>

\* the columns the INSERT statement of each backend names, in order
InsertColumnNames(dbt) ==
    IF dbt = "sql"
    THEN <<"repo_name", "pr_id", "pr_state", "pr_created_at", "pr_updated_at",
           "pr_merged_at", "pr_title", "pr_user_login", "pr_diff_url", "pr_body",
           "pr_comments_count", "pr_commits_count">>
    ELSE <<"repo_name", "pr_id", "pr_state", "pr_created_at", "pr_updated_at",
           "pr_merged_at", "pr_title", "pr_user_login", "pr_diff_url",
           "pr_comments_count", "pr_commits_count">>

\* the number of placeholders in the INSERT statement of each backend
QueryPlaceholders(dbt) == IF dbt = "sql" THEN 12 ELSE 11

\* what the database does to one call of insert_pr_data: the connection is
\* refused, the statement is rejected by the server, or neither
SqlOutcomes == {"ok", "connect_failed", "execute_failed"}

\* the same, and what can happen inside connect_to_db after the driver has
\* connected: create_sqlite_table raises a sqlite3 error, or is_connected() is
\* false
SqlOutcomesOf(dbt) ==
    SqlOutcomes \cup (IF dbt = "sqlite3" THEN {"table_failed"}
                      ELSE IF dbt = "sql" THEN {"not_connected"} ELSE {})

\* connect_to_db() returns None: the driver's connect raises, or (sqlite3)
\* create_sqlite_table raises, or (sql) is_connected() is false and the
\* function ends without a return
ConnectReturnsNone(dbt, outcome) ==
    \/ outcome = "connect_failed"
    \/ dbt = "sqlite3" /\ outcome = "table_failed"
    \/ dbt = "sql" /\ outcome = "not_connected"

\* the connections one call of connect_to_db opens: the one it returns and,
\* with sqlite3, the one create_sqlite_table opens for itself
ConnectionsOpened(dbt, outcome) ==
    IF outcome = "connect_failed" THEN 0
    ELSE IF dbt = "sqlite3" THEN 2 ELSE 1

\* the calls of close() in one call of insert_pr_data: the finally clause
\* closes the connection connect_to_db returned; create_sqlite_table leaves
\* its "with" block, which commits and does not close
ConnectionsClosed(dbt, outcome) ==
    IF ConnectReturnsNone(dbt, outcome) THEN 0 ELSE 1

\* "except Error" names sqlite3.Error (from sqlite3 import Error): it catches
\* the errors of the sqlite3 driver and not those of mysql.connector
ErrorCaught(dbt) == dbt = "sqlite3"

\* cursor.execute raises a driver error: the parameters do not match the
\* placeholders, the server rejects the statement, or pr_id (the primary key)
\* is already in the table
ExecuteFails(dbt, tbl, row, outcome) ==
    \/ Len(InsertColumns(row)) # QueryPlaceholders(dbt)
    \/ outcome = "execute_failed"
    \/ \E i \in 1..Len(tbl) : tbl[i][2] = row.pr_id

\* a variant that never commits
insert_pr_data_no_commit(dbt, tbl, row, outcome) ==
    [table |-> tbl,
     opened |-> ConnectionsOpened(dbt, outcome),
     closed |-> ConnectionsClosed(dbt, outcome),
     raised |-> /\ ~ConnectReturnsNone(dbt, outcome)
                /\ ExecuteFails(dbt, tbl, row, outcome)
                /\ ~ErrorCaught(dbt)]

\* insert_pr_data(pr_data).  table: the committed rows after the call;
\* raised: the call raised to its caller; opened, closed: the connections
\* opened during the call and the calls of close()
insert_pr_data(dbt, tbl, row, outcome) ==
    LET conns == [opened |-> ConnectionsOpened(dbt, outcome),
                  closed |-> ConnectionsClosed(dbt, outcome)]
    IN IF ConnectReturnsNone(dbt, outcome)
       THEN [table |-> tbl, raised |-> FALSE,
             opened |-> conns.opened, closed |-> conns.closed]
       ELSE IF ExecuteFails(dbt, tbl, row, outcome)
       THEN [table |-> tbl, raised |-> ~ErrorCaught(dbt),
             opened |-> conns.opened, closed |-> conns.closed]
       ELSE [table |-> Append(tbl, InsertColumns(row)), raised |-> FALSE,
             opened |-> conns.opened, closed |-> conns.closed]

\* what can happen in insert_pr_body_mongodb; it catches nothing
MongoOutcomes == {"ok", "raised"}

\* the clients one call of insert_pr_body_mongodb opens and closes:
\* client.close() is the last statement, which an exception of insert_one
\* skips
MongoClients(outcome) ==
    [opened |-> 1, closed |-> IF outcome = "ok" THEN 1 ELSE 0]

\* insert_pr_body_mongodb(pr_id, pr_body) when insert_one succeeds
insert_pr_body_mongodb(ds, pr_id, pr_body) ==
    Append(ds, [pr_id |-> pr_id, pr_body |-> pr_body])

\* what the history keeps of a record handed to a destination.  ok: the
\* database met no failure of its own; raised: the call raised to its caller
Handed(sink, row, outcome, raised) ==
    [sink |-> sink, repo |-> row.repo_name, pr |-> row.pr_id,
     ok |-> outcome = "ok", raised |-> raised]

\* a variant that hands the record to the relational destination twice
StoreRecordTwice(dbt, tbl, ds, row, sql, mongo) ==
    LET ins == insert_pr_data(dbt, tbl, row, sql)
        again == insert_pr_data(dbt, ins.table, row, sql)
        h == <<Handed("sql", row, sql, ins.raised),
               Handed("sql", row, sql, again.raised),
               Handed("mongo", row, mongo, mongo = "raised")>>
    IN [table |-> again.table,
        docs |-> IF mongo = "ok"
                 THEN insert_pr_body_mongodb(ds, row.pr_id, row.pr_body) ELSE ds,
        handed |-> h, raised |-> mongo = "raised"]

\* the two calls that persist one record, insert_pr_data(pr_data) and then
\* insert_pr_body_mongodb(pr_data["pr_id"], pr_data["pr_body"]): an
\* exception of the first skips the second.  handed: what was handed to a
\* destination, in order; raised: an exception left the pair of calls
StoreRecord(dbt, tbl, ds, row, sql, mongo) ==
    LET ins == insert_pr_data(dbt, tbl, row, sql)
    IN IF ins.raised
       THEN [table |-> ins.table, docs |-> ds,
             handed |-> <<Handed("sql", row, sql, TRUE)>>, raised |-> TRUE]
       ELSE [table |-> ins.table,
             docs |-> IF mongo = "ok"
                      THEN insert_pr_body_mongodb(ds, row.pr_id, row.pr_body)
                      ELSE ds,
             handed |-> <<Handed("sql", row, sql, FALSE),
                          Handed("mongo", row, mongo, mongo = "raised")>>,
             raised |-> mongo = "raised"]

\* the kinds of the requests of one assembly
AssemblyKinds(requests) ==
    (IF Len(requests) >= 1 THEN {"comments"} ELSE {}) \cup
    (IF Len(requests) >= 2 THEN {"commits"} ELSE {}) \cup
    (IF Len(requests) >= 3 THEN {"commit"} ELSE {})

\* the summaries of the items of a PR listing, the repositories of the items
\* of a repository listing
PrsOf(its) == [i \in 1..Len(its) |-> PrCat(its[i])]
ReposOf(its) == [i \in 1..Len(its) |-> RepoCat(its[i])]

\* a call of get_all_paginated_items has ended with the locals of w: they
\* replace those of the call before, whose page_count goes to the history
WalkEnded(w) ==
    /\ url' = w.url
    /\ page_count' = w.page_count
    /\ items' = w.items
    /\ wstate' = w.wstate
    /\ requested' = w.asked
    /\ earlier' = earlier + page_count
    /\ UNCHANGED fetched

\* the callers of create_dataframe_with_prs
BatchEntries == {"create_csv", "create_and_store_pr_data_all"}

\* where an exception raised under the entry point e ends: create_csv and main
\* let it through, create_and_store_pr_data_all catches and logs it
AfterException(e) ==
    IF e = "create_and_store_pr_data_all" THEN "logged" ELSE "crashed"

\* a variant that writes the file twice
to_csv_twice(files, df) == Append(Append(files, df), df)

\* df_prs.to_csv(output_file): the file holds the rows of the frame
to_csv(files, df) == Append(files, df)

\* the max_pages arguments of a run: not given, and one page per walk
RunMaxPagesArgs == {0, 1}

InitRun ==
    /\ max_pages \in {InitMaxPages(a) : a \in RunMaxPagesArgs}
    /\ PerPageNotGiven
    /\ WalkIdle
    /\ AsmIdle
    /\ entry \in {"create_csv", "main", "create_and_store_pr_data_all"}
    /\ repo \in {"", "r1"}
    /\ pc = IF entry = "create_and_store_pr_data_all" THEN "valid" ELSE "start"
    /\ token = [result |-> "unchecked"]
    /\ repos = <<>>
    /\ repo_idx = 0
    /\ prs = <<>>
    /\ pr_idx = 0
    /\ page = 0
    /\ rows = <<>>
    /\ table = <<>>
    /\ docs = <<>>
    /\ csv = <<>>
    /\ reqs = {}
    /\ scanned = {}
    /\ assembled = <<>>
    /\ writes = <<>>
    /\ db_type \in IF entry = "main" THEN {"sqlite3"}
                   ELSE IF entry = "create_csv" THEN {"none"}
                   ELSE {"sql", "sqlite3"}

\* create_csv / main: the credential check and the exit on an invalid token
IsTokenValid ==
    /\ pc = "start"
    /\ \E reply \in TokenReplies :
         LET r == is_token_valid(reply)
         IN /\ token' = [result |-> r, fault |-> reply.fault, status |-> reply.status]
            /\ pc' = IF r = "raised" THEN "crashed"
                     ELSE IF ExitsOnToken(entry, r = "true") THEN "exited"
                     ELSE "valid"
    /\ reqs' = reqs \cup {"identity"}
    /\ UNCHANGED <<cfgvars, walkvars, asmvars, repos, repo_idx, prs, pr_idx, page,
                   rows, table, docs, csv, scanned, assembled, writes>>

\* create_dataframe_with_prs with self.repo set: the PRs of that repository
BatchSingleRepo ==
    /\ pc = "valid" /\ entry \in BatchEntries /\ repo # ""
    /\ \E script \in PrListings :
         LET w == get_pull_requests(max_pages, script)
         IN /\ WalkEnded(w)
            /\ IF w.wstate = "raised"
               THEN pc' = AfterException(entry) /\ UNCHANGED <<prs, pr_idx>>
               ELSE pc' = "batch_prs" /\ prs' = PrsOf(w.items) /\ pr_idx' = 1
    /\ reqs' = reqs \cup {"pulls"}
    /\ scanned' = scanned \cup {<<Organization, repo>>}
    /\ UNCHANGED <<cfgvars, asmvars, token, repos, repo_idx, page, rows,
                   table, docs, csv, assembled, writes>>

\* create_dataframe_with_prs without self.repo: get_repos()
BatchGetRepos ==
    /\ pc = "valid" /\ entry \in BatchEntries /\ repo = ""
    /\ \E script \in RepoListings :
         LET w == get_repos(max_pages, script)
         IN /\ WalkEnded(w)
            /\ IF w.wstate = "raised"
               THEN pc' = AfterException(entry) /\ UNCHANGED <<repos, repo_idx>>
               ELSE pc' = "batch_repos" /\ repos' = ReposOf(w.items) /\ repo_idx' = 1
    /\ reqs' = reqs \cup {"repos"}
    /\ UNCHANGED <<cfgvars, asmvars, token, prs, pr_idx, page, rows,
                   table, docs, csv, scanned, assembled, writes>>

\* a variant in which the walk goes on counting where the earlier walks
\* stopped
BatchNextRepoSharedBudget ==
    /\ pc = "batch_repos"
    /\ IF repo_idx <= Len(repos)
       THEN /\ \E script \in PrListings :
                 LET w == get_pull_requests(max_pages - (earlier + page_count), script)
                 IN /\ WalkEnded(w)
                    /\ IF w.wstate = "raised"
                       THEN pc' = AfterException(entry) /\ UNCHANGED <<prs, pr_idx>>
                       ELSE pc' = "batch_prs" /\ prs' = PrsOf(w.items) /\ pr_idx' = 1
            /\ reqs' = reqs \cup {"pulls"}
            /\ scanned' = scanned \cup
                 {<<repos[repo_idx].owner.login, repos[repo_idx].name>>}
       ELSE pc' = "frame" /\ UNCHANGED <<walkvars, prs, pr_idx, reqs, scanned>>
    /\ UNCHANGED <<cfgvars, asmvars, token, repos, repo_idx, page, rows,
                   table, docs, csv, assembled, writes>>

\* the loop over repos: get_pull_requests of the next repository, or the
\* return of the DataFrame after the last
BatchNextRepo ==
    /\ pc = "batch_repos"
    /\ IF repo_idx <= Len(repos)
       THEN /\ \E script \in PrListings :
                 LET w == get_pull_requests(max_pages, script)
                 IN /\ WalkEnded(w)
                    /\ IF w.wstate = "raised"
                       THEN pc' = AfterException(entry) /\ UNCHANGED <<prs, pr_idx>>
                       ELSE pc' = "batch_prs" /\ prs' = PrsOf(w.items) /\ pr_idx' = 1
            /\ reqs' = reqs \cup {"pulls"}
            /\ scanned' = scanned \cup
                 {<<repos[repo_idx].owner.login, repos[repo_idx].name>>}
       ELSE pc' = "frame" /\ UNCHANGED <<walkvars, prs, pr_idx, reqs, scanned>>
    /\ UNCHANGED <<cfgvars, asmvars, token, repos, repo_idx, page, rows,
                   table, docs, csv, assembled, writes>>

\* the loop over prs: build_pr_data_row and the append of a row that is not None
BatchBuildRow ==
    /\ pc = "batch_prs" /\ pr_idx <= Len(prs)
    /\ Len(assembled) < MaxAssemblies
    /\ \E in \in RunAssemblyInputs :
         LET name == IF repo # "" THEN repo ELSE repos[repo_idx].name
             r == build_pr_data_row(prs[pr_idx], name, in.comments, in.commits,
                                    in.detail)
         IN /\ rows' = RowsAppend(rows, r.row)
            /\ reqs' = reqs \cup AssemblyKinds(r.requests)
            /\ assembled' = Append(assembled,
                 [repo |-> name, pr |-> prs[pr_idx].id, none |-> r.row.none])
    /\ pr_idx' = pr_idx + 1
    /\ UNCHANGED <<cfgvars, walkvars, asmvars, pc, token, repos, repo_idx, prs, page,
                   table, docs, csv, scanned, writes>>

\* the loop over prs ends: the next repository, or the return of the DataFrame
BatchPrsDone ==
    /\ pc = "batch_prs" /\ pr_idx > Len(prs)
    /\ IF repo # ""
       THEN pc' = "frame" /\ UNCHANGED repo_idx
       ELSE pc' = "batch_repos" /\ repo_idx' = repo_idx + 1
    /\ UNCHANGED <<cfgvars, walkvars, asmvars, token, repos, prs, pr_idx, page, rows,
                   table, docs, csv, reqs, scanned, assembled, writes>>

\* create_csv: df_prs.to_csv(output_file)
WriteCsv ==
    /\ pc = "frame" /\ entry = "create_csv"
    /\ csv' = to_csv(csv, rows)
    /\ pc' = "done"
    /\ UNCHANGED <<cfgvars, walkvars, asmvars, token, repos, repo_idx, prs, pr_idx,
                   page, rows, table, docs, reqs, scanned, assembled, writes>>

\* create_and_store_pr_data_all: the frame is returned, the loop over its
\* rows begins (an empty frame has no rows to iterate)
StoreAllFrame ==
    /\ pc = "frame" /\ entry = "create_and_store_pr_data_all"
    /\ pc' = "store_rows"
    /\ pr_idx' = 1
    /\ UNCHANGED <<cfgvars, walkvars, asmvars, token, repos, repo_idx, prs, page,
                   rows, table, docs, csv, reqs, scanned, assembled, writes>>

\* create_and_store_pr_data_all: one iteration of the loop over the rows; an
\* exception of either insert leaves the loop and is logged
StoreAllRow ==
    /\ pc = "store_rows" /\ pr_idx <= Len(rows)
    /\ \E sql \in SqlOutcomesOf(db_type), mongo \in MongoOutcomes :
         LET st == StoreRecord(db_type, table, docs, rows[pr_idx], sql, mongo)
         IN /\ table' = st.table
            /\ docs' = st.docs
            /\ writes' = writes \o st.handed
            /\ IF st.raised
               THEN pc' = AfterException(entry) /\ UNCHANGED pr_idx
               ELSE pr_idx' = pr_idx + 1 /\ UNCHANGED pc
    /\ UNCHANGED <<cfgvars, walkvars, asmvars, token, repos, repo_idx, prs, page,
                   rows, csv, reqs, scanned, assembled>>

\* create_and_store_pr_data_all: the loop over the rows ends
StoreAllDone ==
    /\ pc = "store_rows" /\ pr_idx > Len(rows)
    /\ pc' = "done"
    /\ UNCHANGED <<cfgvars, walkvars, asmvars, token, repos, repo_idx, prs, pr_idx,
                   page, rows, table, docs, csv, reqs, scanned, assembled, writes>>

\* create_and_store_pr_data: get_repos(), whatever self.repo is
StreamGetRepos ==
    /\ pc = "valid" /\ entry = "main"
    /\ \E script \in RepoListings :
         LET w == get_repos(max_pages, script)
         IN /\ WalkEnded(w)
            /\ IF w.wstate = "raised"
               THEN pc' = "crashed" /\ UNCHANGED <<repos, repo_idx>>
               ELSE pc' = "stream_repos" /\ repos' = ReposOf(w.items) /\ repo_idx' = 1
    /\ reqs' = reqs \cup {"repos"}
    /\ UNCHANGED <<cfgvars, asmvars, token, prs, pr_idx, page, rows,
                   table, docs, csv, scanned, assembled, writes>>

\* the loop over repos: fetch_and_process_prs of the next repository is
\* entered, or the run ends
StreamNextRepo ==
    /\ pc = "stream_repos"
    /\ IF repo_idx <= Len(repos)
       THEN pc' = "stream_page" /\ page' = 1
       ELSE pc' = "done" /\ UNCHANGED page
    /\ UNCHANGED <<cfgvars, walkvars, asmvars, token, repos, repo_idx, prs, pr_idx,
                   rows, table, docs, csv, reqs, scanned, assembled, writes>>

\* fetch_and_process_prs: the request of one page and the two breaks
StreamFetchPage ==
    /\ pc = "stream_page"
    /\ page <= MaxStreamPages
    /\ \E reply \in StreamPageReplies :
         LET response == make_api_request(reply)
         IN IF ~ResponseTruthy(response) \/ response.status # 200
            THEN /\ pc' = "stream_repos" /\ repo_idx' = repo_idx + 1
                 /\ UNCHANGED <<prs, pr_idx>>
            ELSE IF ~response.json
            THEN pc' = "crashed" /\ UNCHANGED <<repo_idx, prs, pr_idx>>
            ELSE IF Len(response.body) = 0
            THEN /\ pc' = "stream_repos" /\ repo_idx' = repo_idx + 1
                 /\ UNCHANGED <<prs, pr_idx>>
            ELSE /\ pc' = "stream_prs" /\ prs' = PrsOf(response.body)
                 /\ pr_idx' = 1 /\ UNCHANGED repo_idx
    /\ reqs' = reqs \cup {"pulls"}
    /\ scanned' = scanned \cup
         {<<repos[repo_idx].owner.login, repos[repo_idx].name>>}
    /\ UNCHANGED <<cfgvars, walkvars, asmvars, token, repos, page, rows, table, docs,
                   csv, assembled, writes>>

\* process_single_pr: build_pr_data_row, then the two inserts of a row that is
\* not None; an exception of insert_pr_body_mongodb ends the run
ProcessSinglePr ==
    /\ pc = "stream_prs" /\ pr_idx <= Len(prs)
    /\ Len(assembled) < MaxAssemblies
    /\ \E in \in RunAssemblyInputs, sql \in SqlOutcomesOf(db_type), mongo \in MongoOutcomes :
         LET name == repos[repo_idx].name
             r == build_pr_data_row(prs[pr_idx], name, in.comments, in.commits,
                                    in.detail)
         IN /\ reqs' = reqs \cup AssemblyKinds(r.requests)
            /\ assembled' = Append(assembled,
                 [repo |-> name, pr |-> prs[pr_idx].id, none |-> r.row.none])
            /\ IF RowTruthy(r.row)
               THEN LET st == StoreRecord(db_type, table, docs, r.row, sql, mongo)
                    IN /\ table' = st.table
                       /\ docs' = st.docs
                       /\ writes' = writes \o st.handed
                       /\ IF st.raised
                          THEN pc' = "crashed" /\ UNCHANGED pr_idx
                          ELSE pr_idx' = pr_idx + 1 /\ UNCHANGED pc
               ELSE pr_idx' = pr_idx + 1 /\ UNCHANGED <<pc, table, docs, writes>>
    /\ UNCHANGED <<cfgvars, walkvars, asmvars, token, repos, repo_idx, prs, page,
                   rows, csv, scanned>>

\* the loop over the PRs of a page ends: page += 1
StreamPageDone ==
    /\ pc = "stream_prs" /\ pr_idx > Len(prs)
    /\ page' = page + 1
    /\ pc' = "stream_page"
    /\ UNCHANGED <<cfgvars, walkvars, asmvars, token, repos, repo_idx, prs, pr_idx,
                   rows, table, docs, csv, reqs, scanned, assembled, writes>>

NextRun ==
    \/ IsTokenValid
    \/ BatchSingleRepo
    \/ BatchGetRepos
    \/ BatchNextRepo
    \/ BatchBuildRow
    \/ BatchPrsDone
    \/ WriteCsv
    \/ StoreAllFrame
    \/ StoreAllRow
    \/ StoreAllDone
    \/ StreamGetRepos
    \/ StreamNextRepo
    \/ StreamFetchPage
    \/ ProcessSinglePr
    \/ StreamPageDone

SpecRun == InitRun /\ [][NextRun]_vars

----------------------------------------------------------------------------
(* The constructor and the listing urls on their own.                      *)

\* the caller passes per_page as None or as an int in -MaxPerPageArg..MaxPerPageArg
MaxPerPageArg == 102

PerPageArgs == {NoArg} \cup {IntArg(n) : n \in (0 - MaxPerPageArg)..MaxPerPageArg}

\* str(n) of an int, as the f-string writes it into the url
Digits == <<"0", "1", "2", "3", "4", "5", "6", "7", "8", "9">>
RECURSIVE NatText(_)
NatText(n) ==
    IF n < 10 THEN <<Digits[n + 1]>> ELSE NatText(n \div 10) \o <<Digits[(n % 10) + 1]>>
IntText(n) == IF n < 0 THEN <<"-">> \o NatText(0 - n) ELSE NatText(n)

\* the query that both listing urls end with: per_page={self.per_page}
PerPageQuery(pp) == <<"p", "e", "r", "_", "p", "a", "g", "e", "=">> \o IntText(pp)

\* the urls of get_repos and of get_pull_requests
ReposUrlText(pp) == ReposUrl \o <<"?">> \o PerPageQuery(pp)
PullsUrlText(pp) ==
    PullsUrl \o <<"?", "s", "t", "a", "t", "e", "=", "a", "l", "l", "&">> \o PerPageQuery(pp)

InitConfig ==
    /\ max_pages = DefaultMaxPages
    /\ PerPageNotGiven
    /\ WalkIdle
    /\ AsmIdle
    /\ RunIdle

\* GitDataCollector(..., max_pages, per_page, ...)
Construct ==
    /\ pc = "idle"
    /\ \E a \in 0..MaxPagesArg, pp \in PerPageArgs :
         /\ max_pages' = InitMaxPages(a)
         /\ per_page_arg' = pp
         /\ per_page' = InitPerPage(pp)
    /\ pc' = "built"
    /\ UNCHANGED <<db_type, entry, repo, walkvars, asmvars, token, repos, repo_idx,
                   prs, pr_idx, page, rows, table, docs, csv, reqs, scanned,
                   assembled, writes>>

\* get_repos builds repos_url
BuildReposUrl ==
    /\ pc = "built"
    /\ url' = PyStr(ReposUrlText(per_page))
    /\ pc' = "repos_url"
    /\ UNCHANGED <<cfgvars, page_count, items, wstate, requested, fetched, earlier,
                   asmvars, token, repos, repo_idx, prs, pr_idx, page, rows, table,
                   docs, csv, reqs, scanned, assembled, writes>>

\* get_pull_requests builds prs_url
BuildPullsUrl ==
    /\ pc = "built"
    /\ url' = PyStr(PullsUrlText(per_page))
    /\ pc' = "pulls_url"
    /\ UNCHANGED <<cfgvars, page_count, items, wstate, requested, fetched, earlier,
                   asmvars, token, repos, repo_idx, prs, pr_idx, page, rows, table,
                   docs, csv, reqs, scanned, assembled, writes>>

NextConfig ==
    \/ Construct
    \/ BuildReposUrl
    \/ BuildPullsUrl

SpecConfig == InitConfig /\ [][NextConfig]_vars

\* the int that a text of digits, with or without a sign, denotes
DigitValue(c) == CHOOSE d \in 0..9 : Digits[d + 1] = c
RECURSIVE NatValue(_)
NatValue(t) ==
    IF Len(t) = 0 THEN 0
    ELSE 10 * NatValue(SubSeq(t, 1, Len(t) - 1)) + DigitValue(t[Len(t)])
IntValue(t) == IF t[1] = "-" THEN 0 - NatValue(Tail(t)) ELSE NatValue(t)

\* the page size that a listing url asks for
PageSizeAsked(u) ==
    LET parts == Split(u, <<"p", "e", "r", "_", "p", "a", "g", "e", "=">>)
    IN IntValue(parts[Len(parts)])

\* C18: for every per_page argument (None, 0, any int) the page size of the
\* collector and the page size written into the listing urls is at most 100:
\* None and 0 give 100, an argument above 100 gives 100, an argument from 1
\* to 99 is used unchanged.
C18_PerPageClamped ==
    pc \in {"built", "repos_url", "pulls_url"} =>
        /\ per_page <= 100
        /\ per_page_arg.none => per_page = 100
        /\ (~per_page_arg.none /\ per_page_arg.n = 0) => per_page = 100
        /\ (~per_page_arg.none /\ per_page_arg.n > 100) => per_page = 100
        /\ (~per_page_arg.none /\ per_page_arg.n >= 1 /\ per_page_arg.n <= 99) =>
              per_page = per_page_arg.n
        /\ pc \in {"repos_url", "pulls_url"} =>
              /\ PageSizeAsked(url.s) = per_page
              /\ PageSizeAsked(url.s) <= 100

\* a collector built with per_page = 101 asks for pages of 100 repositories
C18_Witness ==
    /\ pc = "repos_url"
    /\ per_page_arg = IntArg(101)
    /\ per_page = 100
    /\ PageSizeAsked(url.s) = 100

----------------------------------------------------------------------------
(* Properties of the credential check and of the runs.                     *)

\* C4: is_token_valid returns a boolean for every outcome of the identity
\* request and never raises: true only for a 2xx status, false for every
\* non-2xx status and for a transport fault.
C4_TokenCheckReturnsBoolean ==
    token.result # "unchecked" =>
        /\ token.result \in {"true", "false"}
        /\ token.result = "true" =>
              ~token.fault /\ token.status >= 200 /\ token.status <= 299
        /\ (token.fault \/ token.status < 200 \/ token.status > 299) =>
              token.result = "false"

\* C5: after the credential check returned false the run has stopped: in both
\* entry points the identity request is the only request ever issued, no
\* repository is scanned, no PR is assembled and nothing is written to the
\* file, the table or the collection.
C5_InvalidTokenStopsRun ==
    token.result = "false" =>
        /\ pc = "exited"
        /\ reqs = {"identity"}
        /\ scanned = {}
        /\ assembled = <<>>
        /\ rows = <<>>
        /\ table = <<>>
        /\ docs = <<>>
        /\ csv = <<>>

\* main has exited after a 404 of the identity endpoint
C5_Witness ==
    /\ entry = "main"
    /\ token.result = "false"
    /\ token.status = 404
    /\ pc = "exited"

\* C9: a call of build_pr_data_row that meets an exception returns None (it
\* does so whenever the summary lacks a key it reads), and the caller, batch
\* or streaming, then appends no row, inserts nothing, and moves on to the
\* next PR of the listing; no None is ever in the rows.
C9_NullRowSkipped ==
    [][ /\ \A i \in 1..Len(rows') : ~rows'[i].none
        /\ Len(assembled') = Len(assembled) + 1 =>
              LET last == assembled'[Len(assembled')]
              IN /\ ~PrComplete(prs[pr_idx]) => last.none
                 /\ last.none =>
                       /\ rows' = rows
                       /\ table' = table
                       /\ docs' = docs
                       /\ csv' = csv
                       /\ pc' = pc
                       /\ pr_idx' = pr_idx + 1
                       /\ <<prs', repos', repo_idx'>> = <<prs, repos, repo_idx>>
      ]_vars

\* an assembly returned None, and after it a PR of the same repository and a
\* PR of a later repository were assembled
C9_Witness ==
    \E i, j, k \in 1..Len(assembled) :
        /\ i < j /\ j < k
        /\ assembled[i].none
        /\ assembled[j].repo = assembled[i].repo
        /\ ~assembled[j].none
        /\ assembled[k].repo # assembled[i].repo

\* C10: when a repository name is configured, the only repository scanned is
\* (organization, that name) and the repository listing of the organization is
\* never requested, in the batch and in the streaming run.
C10_ConfiguredRepoOnly ==
    repo # "" =>
        /\ "repos" \notin reqs
        /\ scanned \subseteq {<<Organization, repo>>}

----------------------------------------------------------------------------
(* Properties of the destinations.                                         *)

\* the run has ended: normally, by an uncaught exception, or by an exception
\* that create_and_store_pr_data_all logged
RunEnded == pc \in {"done", "crashed", "logged"}

\* C11: insert_pr_data never raises to its caller, for the backend "sql" and
\* for the backend "sqlite3": whatever the database does to the call (refused
\* connection, rejected statement, pr_id already in the table), no record
\* handed to the relational destination made the call raise.
C11_InsertNeverRaises ==
    \A i \in 1..Len(writes) : writes[i].sink = "sql" => ~writes[i].raised

\* C12: once the credential check has passed, no failure aborts the run: when
\* the run has ended, no enumerated repository and no PR item of the listing
\* in hand is left that was never reached.
C12_NoFailureAbortsRun ==
    (token.result = "true" /\ RunEnded) =>
        /\ \A i \in 1..Len(repos) : i <= repo_idx
        /\ \A i \in 1..Len(prs) : i <= pr_idx

\* C13: the two destinations are independent: every record handed to the
\* relational destination is handed to the document destination next, whether
\* or not the relational insert failed, and a failed document insert leaves
\* the relational row in place and does not end the persisting of records.
C13_SinksIndependent ==
    /\ \A i \in 1..Len(writes) :
          writes[i].sink = "sql" =>
              /\ i < Len(writes)
              /\ writes[i + 1].sink = "mongo"
              /\ writes[i + 1].pr = writes[i].pr
    /\ \A i \in 1..Len(writes) :
          (writes[i].sink = "mongo" /\ writes[i].raised) =>
              /\ pc \notin {"crashed", "logged"}
              /\ (writes[i - 1].ok /\ ~writes[i - 1].raised) =>
                    \E k \in 1..Len(table) : table[k][2] = writes[i].pr

\* a is an initial segment of b
IsPrefix(a, b) == Len(a) <= Len(b) /\ SubSeq(b, 1, Len(a)) = a

\* the records handed to one destination, in order
HandedTo(sink) == SelectSeq(writes, LAMBDA w : w.sink = sink)

\* the (repository, pr_id) pairs of a sequence of history entries, of a
\* sequence of rows
Keys(entries) == [i \in 1..Len(entries) |-> <<entries[i].repo, entries[i].pr>>]
RowKeys(rs) == [i \in 1..Len(rs) |-> <<rs[i].repo_name, rs[i].pr_id>>]

\* the assemblies that returned a row
Built == SelectSeq(assembled, LAMBDA a : ~a.none)

\* every insert that met no failure of its database is in place: the table
\* has a row with its pr_id (the primary key), the collection its document
Persisted ==
    \A i \in 1..Len(writes) :
        writes[i].ok =>
            IF writes[i].sink = "sql"
            THEN \E k \in 1..Len(table) : table[k][2] = writes[i].pr
            ELSE \E k \in 1..Len(docs) : docs[k].pr_id = writes[i].pr

\* C14: in the streaming run the writes of a PR are committed before anything
\* is requested for the next PR: in every state, also after a crash, every
\* accepted insert of the PRs processed so far is in the table and in the
\* collection, no row is buffered, and no step, the crashing one included,
\* removes a row or a document.
C14_StreamingDurability ==
    /\ [](entry = "main" => (rows = <<>> /\ Persisted))
    /\ [][entry = "main" => (IsPrefix(table, table') /\ IsPrefix(docs, docs'))]_vars

\* the streaming run crashed while it processed a PR, after it had stored the
\* rows and the documents of two earlier PRs, which are in place
C14_Witness ==
    /\ entry = "main"
    /\ pc = "crashed"
    /\ Len(assembled) >= 3
    /\ Len(writes) >= 1
    /\ writes[Len(writes)].raised
    /\ Len(table) = 2
    /\ Len(docs) = 2
    /\ \A k \in 1..2 :
          /\ table[k][2] = docs[k].pr_id
          /\ \E i \in 1..(Len(assembled) - 1) : assembled[i].pr = table[k][2]

C17_FileWrittenOnceAtEnd ==
    /\ entry # "create_csv" => csv = <<>>
    /\ entry = "create_csv" =>
          /\ Len(csv) <= 1
          /\ (pc = "done") <=> (Len(csv) = 1)
          /\ Len(csv) = 1 =>
                /\ csv[1] = rows
                /\ RowKeys(csv[1]) = Keys(Built)
                /\ \A i \in 1..Len(repos) : i < repo_idx
                /\ \A i \in 1..Len(prs) : i < pr_idx

\* create_csv is done for two repositories: the file holds two rows, and the
\* PR whose assembly returned None is not in it
C17_Witness ==
    /\ entry = "create_csv"
    /\ pc = "done"
    /\ Len(repos) = 2
    /\ Len(csv) = 1
    /\ Len(csv[1]) = 2
    /\ csv[1][1].repo_name # csv[1][2].repo_name
    /\ \E i \in 1..Len(assembled) : assembled[i].none

\* C19: the PR listing of one repository is walked within max_pages page
\* requests in both runs: in the streaming run, the page of
\* fetch_and_process_prs whose PRs are being processed is at most the
\* max_pages-th.
C19_PrWalkWithinMaxPages ==
    pc = "stream_prs" => page <= max_pages

----------------------------------------------------------------------------
(* Further properties of the walk.                                         *)

\* the last Len(b) items
LastItems(its, b) ==
    IF Len(b) > Len(its) THEN <<>> ELSE SubSeq(its, Len(its) - Len(b) + 1, Len(its))

\* C16: after a successfully fetched page whose Link header is a list of
\* relations, the walk goes on with exactly the url labelled "next", wherever
\* it stands in the list; after a page without a "next" relation (no header, or
\* only other relations) it makes no further request, does not raise, and
\* that page's items are the last items of the result.
C16_FollowsNextRelation ==
    \A i \in 1..Len(fetched) :
        (FetchedOk(fetched[i]) /\ fetched[i].kind \in {"absent", "wf"}) =>
            IF fetched[i].next # PyNone
            THEN /\ i < Len(fetched) => PyStr(requested[i + 1]) = fetched[i].next
                 /\ i = Len(fetched) => (wstate # "raised" /\ url = fetched[i].next)
            ELSE /\ i = Len(fetched)
                 /\ wstate # "raised"
                 /\ wstate = "loop" => ~WalkCondition(url, page_count, max_pages)
                 /\ LastItems(items, fetched[i].body) = fetched[i].body

\* the walk followed the "next" url of the first page and returned after a
\* second page whose header lists only other relations
C16_Witness ==
    /\ wstate = "returned"
    /\ Len(fetched) = 2
    /\ FetchedOk(fetched[1]) /\ fetched[1].kind = "wf"
    /\ requested = <<UrlA, UrlB>>
    /\ FetchedOk(fetched[2]) /\ fetched[2].kind = "wf" /\ fetched[2].next = PyNone
    /\ page_count < max_pages
    /\ items = <<1, 2>>

\* a step in which a run calls get_all_paginated_items
WalkStep ==
    \/ pc = "valid" /\ pc' # "valid"
    \/ pc = "batch_repos" /\ pc' \notin {"batch_repos", "frame"}

\* C20: max_pages is the budget of each walk, not of the run: whatever the
\* earlier walks of the run consumed, every call of get_all_paginated_items
\* issues its first request, counts its own pages only, and ends on its loop
\* condition only when its own page count has reached max_pages or the last
\* page named no next url.
C20_BudgetPerWalk ==
    [][WalkStep =>
          /\ Len(requested') >= 1
          /\ page_count' <= Len(requested')
          /\ page_count' <= max_pages
          /\ (wstate' = "returned" /\ Len(requested') = page_count') =>
                (page_count' = max_pages \/ ~Truthy(url'))
      ]_vars

\* with max_pages = 1 the repository walk and the PR walk of the first
\* repository each consumed one page, and the PR walk of the second
\* repository fetched its page all the same
C20_Witness ==
    /\ max_pages = 1
    /\ entry = "create_csv"
    /\ pc = "batch_prs"
    /\ repo_idx = 2
    /\ earlier = 2
    /\ page_count = 1
    /\ Len(requested) = 1
    /\ Len(prs) = 1

----------------------------------------------------------------------------
(* The two destinations on their own: insert_pr_data and                   *)
(* insert_pr_body_mongodb called on a collector, record after record.      *)

\* the calls of the two functions are explored up to this many
MaxWrites == 2

\* the rows handed to the destinations: those build_pr_data_row gives for two
\* PRs
SinkRows ==
    {r \in {build_pr_data_row(PrSummary(i), "r1", in.comments, in.commits,
                              in.detail).row :
                i \in ItemIds, in \in RunAssemblyInputs} : RowTruthy(r)}

\* the connections still open when a call has ended: those opened and not
\* closed by a call of close(), unless the interpreter has already finalized
\* the objects the call no longer refers to
LeftOpen(opened, closed, finalized) == IF finalized THEN 0 ELSE opened - closed

InitSink ==
    /\ max_pages = DefaultMaxPages
    /\ PerPageNotGiven
    /\ WalkIdle
    /\ AsmIdle
    /\ entry = "none"
    /\ repo = ""
    /\ db_type \in {"sql", "sqlite3"}
    /\ writes = <<>>
    /\ pc = "idle"
    /\ token = [result |-> "unchecked"]
    /\ repos = <<>>
    /\ repo_idx = 0
    /\ prs = <<>>
    /\ pr_idx = 0
    /\ page = 0
    /\ rows = <<>>
    /\ table = <<>>
    /\ docs = <<>>
    /\ csv = <<>>
    /\ reqs = {}
    /\ scanned = {}
    /\ assembled = <<>>

\* insert_pr_data(pr_data) is called and ends
InsertPrData ==
    /\ Len(writes) < MaxWrites
    /\ \E row \in SinkRows, outcome \in SqlOutcomesOf(db_type),
          finalized \in BOOLEAN :
         LET ins == insert_pr_data(db_type, table, row, outcome)
         IN /\ table' = ins.table
            /\ writes' = Append(writes,
                  [sink |-> "sql", pr |-> row.pr_id, ok |-> outcome = "ok",
                   raised |-> ins.raised,
                   row |-> row,
                   columns |-> InsertColumnNames(db_type),
                   params |-> InsertColumns(row),
                   opened |-> ins.opened,
                   left_open |-> LeftOpen(ins.opened, ins.closed, finalized)])
    /\ UNCHANGED <<cfgvars, walkvars, asmvars, pc, token, repos, repo_idx, prs,
                   pr_idx, page, rows, docs, csv, reqs, scanned, assembled>>

\* insert_pr_body_mongodb(pr_id, pr_body) is called and ends
InsertPrBody ==
    /\ Len(writes) < MaxWrites
    /\ \E row \in SinkRows, outcome \in MongoOutcomes, finalized \in BOOLEAN :
         LET clients == MongoClients(outcome)
         IN /\ docs' = IF outcome = "ok"
                       THEN insert_pr_body_mongodb(docs, row.pr_id, row.pr_body)
                       ELSE docs
            /\ writes' = Append(writes,
                  [sink |-> "mongo", pr |-> row.pr_id, ok |-> outcome = "ok",
                   raised |-> outcome = "raised",
                   opened |-> clients.opened,
                   left_open |-> LeftOpen(clients.opened, clients.closed,
                                          finalized)])
    /\ UNCHANGED <<cfgvars, walkvars, asmvars, pc, token, repos, repo_idx, prs,
                   pr_idx, page, rows, table, csv, reqs, scanned, assembled>>

NextSink ==
    \/ InsertPrData
    \/ InsertPrBody

SpecSink == InitSink /\ [][NextSink]_vars

\* C21: every write to a destination uses a connection scoped to that write:
\* insert_pr_data opens exactly one relational connection per insert (none
\* when the connection is refused), insert_pr_body_mongodb one client per
\* insert, and when the write has returned or failed every connection opened
\* during it has been closed.
C21_ConnectionScopedToWrite ==
    \A i \in 1..Len(writes) :
       /\ writes[i].opened <= 1
       /\ writes[i].ok => writes[i].opened = 1
       /\ writes[i].left_open = 0

\* C23: for each relational backend the INSERT of insert_pr_data is given
\* exactly one value for each column its statement names, in the order of the
\* statement's columns.
C23_OneValuePerColumn ==
    \A i \in 1..Len(writes) :
       writes[i].sink = "sql"
       => /\ Len(writes[i].params) = Len(writes[i].columns)
          /\ \A k \in 1..Len(writes[i].columns) :
                writes[i].params[k] = writes[i].row[writes[i].columns[k]]

====
